---- MODULE Spec2Model ----
(***************************************************************************)
(* A model of generator/generate_daily.py, the daily snapshot generator.   *)
(*                                                                         *)
(* Strings of the source that are not ASCII are written in pinyin:        *)
(*   "lianban"             multi-day limit-up streak                       *)
(*   "diwei_shouban"       low-position first limit-up                     *)
(*   "shouban"             first limit-up                                  *)
(*   "xiangti_tupo_120"    120-day box breakout                            *)
(*   "lishi_xingao"        250-day new high                                *)
(*   "diwei_tupo"          low-position breakout                           *)
(*   "xiangti_dibu_qidong" box-bottom lift-off                             *)
(*   "gaowei_ban"          high-position limit-up (sentiment high)         *)
(*   "none"                the em-dash sentinel of "no pattern"            *)
(*   "chuangyeban", "kechuangban", "zhuban"   the three boards             *)
(* Python's None is the record None, a number that may be None is Val(x), *)
(* and a raised exception is a record Exc(name).                           *)
(***************************************************************************)
EXTENDS Integers, Sequences, FiniteSets, TLC

VARIABLES
    pc,         \* position of main() in the run being modelled
    labels,     \* the list `labels` of the label assignment loop
    pattern,    \* r["pattern"] of the row being labelled
    err,        \* the exception that ended the run, or None
    open_days,  \* open_days: the open trading days up to the target, sorted
    ts_code,    \* the instrument followed through the run
    provHist,   \* data provider: the instrument's bars and adj_factors
    pct_chg,    \* r["pct_chg"]; "norow" when the instrument has no row
    top_codes,  \* top_codes
    series_map, \* series_map: code -> adjusted OHLC series
    streak,     \* r["streak"]
    written,    \* the files written under site/data
    universe,   \* universe
    provBasic,  \* data provider: the rows of stock_basic
    provCal,    \* data provider: the number n of open days; they are 1..n
    provOrder,  \* data provider: the order of the rows of a response
    rows,       \* rows
    top200,     \* top200
    pattern_groups, \* pattern_groups
    provMarket, \* data provider: the instruments, in the order of `daily`
    dominant_board,   \* dominant_board
    dominant_pattern, \* dominant_pattern
    concl,      \* concl, as the list of its parts
    nums,       \* _median: the argument nums
    med,        \* _median: the value returned
    turnover_yi,    \* _turn_bucket_yi: the argument
    turn_bucket,    \* _turn_bucket_yi: the value returned
    files,      \* site/data: file name -> content
    daily_snapshot, \* the rows of the table daily_snapshot
    last_write, \* the date and the payload of the latest write (history)
    job,        \* run_eod: the state of each invocation
    lock,       \* run_eod: the holder of the flock on LOCK, or None
    job_runs    \* the rows of the table job_runs

provVars == <<ts_code, provHist, provBasic, provCal, provOrder>>

tableVars == <<rows, top200, pattern_groups, provMarket>>

kpiVars == <<dominant_board, dominant_pattern, concl>>

funVars == <<nums, med, turnover_yi, turn_bucket>>

storeVars == <<files, daily_snapshot, last_write>>

eodVars == <<job, lock, job_runs>>

restVars == <<funVars, storeVars, eodVars>>

otherVars == <<kpiVars, restVars>>

histVars == <<err, open_days, universe, pct_chg, top_codes, series_map, streak,
              written, provVars, tableVars, otherVars>>

vars == <<pc, labels, pattern, histVars>>

\* the variables of a run of main()
mainVars == <<labels, pattern, err, open_days, universe, pct_chg, top_codes,
              series_map, streak, written, provVars, tableVars, kpiVars>>

None == [none |-> TRUE]

Val(x) == [val |-> x]

Exc(e) == [exc |-> e]

(***************************************************************************)
(* Pattern priority and pick_primary                                       *)
(***************************************************************************)
\* a plausible slip: the sentiment label is put first
priority_high_first ==
    <<"gaowei_ban", "lianban", "diwei_shouban", "shouban", "xiangti_tupo_120",
      "lishi_xingao", "diwei_tupo", "xiangti_dibu_qidong">>

priority ==
    << "lianban",
       "diwei_shouban",
       "shouban",
       "xiangti_tupo_120",
       "lishi_xingao",
       "diwei_tupo",
       "xiangti_dibu_qidong",
       "gaowei_ban" >>

Range(s) == { s[i] : i \in 1..Len(s) }

AllLabels == Range(priority)

\* `p in labels` for a Python list
InList(p, lst) == \E i \in 1..Len(lst) : lst[i] = p

RECURSIVE pick_from(_, _)
pick_from(i, lst) ==
    IF i > Len(priority) THEN "none"
    ELSE IF InList(priority[i], lst) THEN priority[i]
    ELSE pick_from(i + 1, lst)

\* a plausible slip: the first label appended wins
pick_primary_first(lst) == IF Len(lst) = 0 THEN "none" ELSE lst[1]

pick_primary(lst) == pick_from(1, lst)

(***************************************************************************)
(* Numbers.  Prices are integers (a fixed-point unit); a quotient the      *)
(* source computes in floating point is kept exact as [num, den], and a    *)
(* division by zero is the exception it raises in Python.                  *)
(***************************************************************************)
ZeroDivisionError == Exc("ZeroDivisionError")
TypeError == Exc("TypeError")
RuntimeError == Exc("RuntimeError")

IsExc(v) == v \in {ZeroDivisionError, TypeError, RuntimeError}

\* a / b
Div(a, b) == IF b = 0 THEN ZeroDivisionError ELSE [num |-> a, den |-> b]

Abs(x) == IF x < 0 THEN -x ELSE x

Sign(x) == IF x < 0 THEN -1 ELSE IF x > 0 THEN 1 ELSE 0

\* q <= a/b, q >= a/b and q > a/b, for a quotient q and b > 0
QLe(q, a, b) == (q.num * b - a * q.den) * Sign(q.den) <= 0
QGe(q, a, b) == (q.num * b - a * q.den) * Sign(q.den) >= 0
QGt(q, a, b) == (q.num * b - a * q.den) * Sign(q.den) > 0

\* float(x) of a value of the provider: raises TypeError on None
float(x) == IF x = None THEN TypeError ELSE x

(***************************************************************************)
(* Boards and the limit-up threshold                                       *)
(***************************************************************************)
\* a ts_code "688001.SH" is [num |-> "688", exch |-> "SH"]: the code's first
\* three digits and the exchange suffix, which is all _board looks at
_board(code) ==
    IF code.exch = "SH" /\ code.num = "688" THEN "kechuangban"
    ELSE IF code.exch = "SZ" /\ code.num = "300" THEN "chuangyeban"
    ELSE "zhuban"

\* a plausible slip: only the ChiNext board gets the wide threshold
limit_up_threshold_one(code) ==
    IF _board(code) = "chuangyeban" THEN 198 ELSE 98

\* in tenths of a percent: 19.8 is 198, 9.8 is 98
limit_up_threshold(code) ==
    IF _board(code) \in {"chuangyeban", "kechuangban"} THEN 198 ELSE 98

(***************************************************************************)
(* Indicator library (closures of main over series_map)                    *)
(***************************************************************************)
\* series_map.get(code) or []
SeriesOf(code) ==
    IF code \in DOMAIN series_map THEN series_map[code] ELSE <<>>

\* arr[-n:] if len(arr) >= n else arr[:]
_slice_last(arr, n) ==
    IF Len(arr) >= n THEN SubSeq(arr, Len(arr) - n + 1, Len(arr)) ELSE arr

\* arr[:-1]
AllButLast(arr) == IF Len(arr) = 0 THEN <<>> ELSE SubSeq(arr, 1, Len(arr) - 1)

Highs(arr) == [i \in 1..Len(arr) |-> arr[i].h]
Lows(arr) == [i \in 1..Len(arr) |-> arr[i].l]
Closes(arr) == [i \in 1..Len(arr) |-> arr[i].c]

_hhv(vals) ==
    IF Len(vals) = 0 THEN None
    ELSE Val(CHOOSE x \in Range(vals) : \A y \in Range(vals) : x >= y)

_llv(vals) ==
    IF Len(vals) = 0 THEN None
    ELSE Val(CHOOSE x \in Range(vals) : \A y \in Range(vals) : x <= y)

RECURSIVE SumFrom(_, _, _)
SumFrom(vals, i, j) ==
    IF i > j THEN 0
    ELSE IF i = j THEN vals[i]
    ELSE LET m == (i + j) \div 2
         IN  SumFrom(vals, i, m) + SumFrom(vals, m + 1, j)

\* sum(vals)
sum(vals) == SumFrom(vals, 1, Len(vals))

\* the mean sum(vals[-n:]) / n, or None
_ma(vals, n) ==
    IF Len(vals) < n THEN None
    ELSE Div(sum(_slice_last(vals, n)), n)

\* a plausible slip: the flat range is not guarded
calc_pos_120_noguard(code) ==
    LET arr == SeriesOf(code)
        arr120 == _slice_last(arr, 120)
        hi == _hhv(Highs(arr120))
        lo == _llv(Lows(arr120))
    IN  IF hi = None \/ lo = None THEN None
        ELSE Div(arr120[Len(arr120)].c - lo.val, hi.val - lo.val)

calc_pos_120(code) ==
    LET arr == SeriesOf(code)
        arr120 == _slice_last(arr, 120)
        hi == _hhv(Highs(arr120))
        lo == _llv(Lows(arr120))
    IN  IF hi = None \/ lo = None \/ hi = lo THEN None
        ELSE Div(arr120[Len(arr120)].c - lo.val, hi.val - lo.val)

wide_box_120(code) ==
    LET arr == SeriesOf(code)
        arr120 == _slice_last(arr, 120)
        upper == _hhv(Highs(arr120))
        lower == _llv(Lows(arr120))
        height == upper.val - lower.val
        closes == Closes(arr120)
        \* 2 * sum(|c - mid|), mid = (upper + lower) / 2
        dev2 == sum([i \in 1..Len(arr120) |->
                       Abs(2 * closes[i] - (upper.val + lower.val))])
    IN  IF Len(arr120) < 60 THEN FALSE
        ELSE IF upper = None \/ lower = None \/ upper = lower THEN FALSE
        ELSE \* mean_abs_dev <= 0.30 and band_width <= 0.30
             /\ 10 * dev2 * Sign(height) <= 3 * 2 * Len(arr120) * Abs(height)
             /\ 10 * (_hhv(closes).val - _llv(closes).val) * Sign(height)
                    <= 3 * Abs(height)

\* a plausible slip: the minimum window length is not checked
box_breakout_120_nolen(code) ==
    LET arr == SeriesOf(code)
        arr120 == _slice_last(arr, 120)
        upper == _hhv(Highs(AllButLast(arr120)))
    IN  IF upper = None THEN FALSE
        ELSE 1000 * arr120[Len(arr120)].c > 1005 * upper.val

box_breakout_120(code) ==
    LET arr == SeriesOf(code)
        arr120 == _slice_last(arr, 120)
        upper == _hhv(Highs(AllButLast(arr120)))
    IN  IF Len(arr120) < 60 THEN FALSE
        ELSE IF upper = None THEN FALSE
        ELSE \* arr120[-1]["c"] > upper * 1.005
             1000 * arr120[Len(arr120)].c > 1005 * upper.val

new_high_250(code) ==
    LET arr == SeriesOf(code)
        arr250 == _slice_last(arr, 250)
        prev_high == _hhv(Highs(AllButLast(arr250)))
    IN  IF Len(arr250) < 120 THEN FALSE
        ELSE IF prev_high = None THEN FALSE
        ELSE \* arr250[-1]["c"] > prev_high * 1.003
             1000 * arr250[Len(arr250)].c > 1003 * prev_high.val

\* (p1 / p0) - 1.0
RetOf(p1, p0) ==
    IF p0 = 0 THEN ZeroDivisionError ELSE [num |-> p1 - p0, den |-> p0]

\* a plausible slip: the close n bars ago is not checked for zero
ret_nd_noguard(code, n) ==
    LET arr == SeriesOf(code)
    IN  IF Len(arr) < n + 1 THEN None
        ELSE RetOf(arr[Len(arr)].c, arr[Len(arr) - n].c)

ret_nd(code, n) ==
    LET arr == SeriesOf(code)
        p0 == arr[Len(arr) - n].c
        p1 == arr[Len(arr)].c
    IN  IF Len(arr) < n + 1 THEN None
        ELSE IF p0 = 0 THEN None
        ELSE RetOf(p1, p0)

\* the backward loop of limit_streak from index i, cnt gains counted so far
RECURSIVE streak_loop(_, _, _, _)
streak_loop(arr, i, th, cnt) ==
    IF i < 2 THEN Val(cnt)
    ELSE LET p1 == arr[i].c
             p0 == arr[i - 1].c
             pct == RetOf(p1, p0)
         IN  IF p0 = 0 THEN Val(cnt)
             ELSE IF IsExc(pct) THEN pct
             ELSE \* (p1 / p0 - 1.0) * 100.0 >= th
                  IF QGe(pct, th, 1000)
                  THEN streak_loop(arr, i - 1, th, cnt + 1)
                  ELSE Val(cnt)

limit_streak(code) ==
    LET arr == SeriesOf(code)
    IN  IF Len(arr) < 2 THEN Val(0)
        ELSE streak_loop(arr, Len(arr), limit_up_threshold(code), 0)

\* a plausible slip: the slope of the 20-day mean is not tested
bottom_liftoff_noslope(code) ==
    LET pos == calc_pos_120(code)
        arr == SeriesOf(code)
        closes == Closes(arr)
        ma20 == _ma(closes, 20)
    IN  IF ~ wide_box_120(code) THEN FALSE
        ELSE IF pos = None \/ QGt(pos, 25, 100) THEN FALSE
        ELSE IF ma20 = None THEN FALSE
        ELSE IF Len(closes) < 30 THEN FALSE
        ELSE closes[Len(closes)] * ma20.den > ma20.num

bottom_liftoff(code) ==
    LET pos == calc_pos_120(code)
        arr == SeriesOf(code)
        closes == Closes(arr)
        ma20 == _ma(closes, 20)
        sum_prev == sum(SubSeq(closes, Len(closes) - 29, Len(closes) - 10))
    IN  IF ~ wide_box_120(code) THEN FALSE
        ELSE IF pos = None \/ QGt(pos, 25, 100) THEN FALSE
        ELSE IF ma20 = None THEN FALSE
        ELSE IF Len(closes) < 30 THEN FALSE
        ELSE \* closes[-1] > ma20 and ma20 - ma20_prev > 0
             /\ closes[Len(closes)] * ma20.den > ma20.num
             /\ ma20.num > sum_prev

(***************************************************************************)
(* The label assignment of one row (main, the loop over top200)            *)
(***************************************************************************)
\* is_low = (pos is not None and pos <= 0.30)
is_low(code) ==
    LET pos == calc_pos_120(code)
    IN  pos # None /\ ~ IsExc(pos) /\ QLe(pos, 30, 100)

\* a plausible slip: is_low is not tested
low_breakout_nolow(code) ==
    LET arr20 == _slice_last(SeriesOf(code), 20)
        prev_hhv == _hhv(Closes(AllButLast(arr20)))
    IN  /\ Len(arr20) >= 10
        /\ prev_hhv # None
        /\ 1000 * arr20[Len(arr20)].c > 1005 * prev_hhv.val

\* the test of the "low breakout" block
low_breakout(code) ==
    LET arr20 == _slice_last(SeriesOf(code), 20)
        prev_hhv == _hhv(Closes(AllButLast(arr20)))
    IN  /\ Len(arr20) >= 10
        /\ prev_hhv # None
        /\ 1000 * arr20[Len(arr20)].c > 1005 * prev_hhv.val
        /\ is_low(code)

\* the test of the "sentiment high-limit" block
sentiment_high(code, st) ==
    LET r20 == ret_nd(code, 20)
        r60 == ret_nd(code, 60)
    IN  /\ st >= 1
        /\ \/ r20 # None /\ QGe(r20, 50, 100)
           \/ r60 # None /\ QGe(r60, 100, 100)

\* [x] if b else []
OnlyIf(b, x) == IF b THEN <<x>> ELSE <<>>

\* the list `labels` as the loop body appends to it, for streak st
LabelsOf(code, st) ==
    OnlyIf(st >= 2, "lianban")
    \o OnlyIf(~ (st >= 2) /\ st = 1, "shouban")
    \o OnlyIf(low_breakout(code), "diwei_tupo")
    \o OnlyIf(low_breakout(code) /\ st = 1, "diwei_shouban")
    \o OnlyIf(wide_box_120(code) /\ box_breakout_120(code), "xiangti_tupo_120")
    \o OnlyIf(new_high_250(code), "lishi_xingao")
    \o OnlyIf(sentiment_high(code, st), "gaowei_ban")
    \o OnlyIf(bottom_liftoff(code), "xiangti_dibu_qidong")

\* the exception the loop body raises for this row, or None
LabelExc(code) ==
    LET st == limit_streak(code)
        pos == calc_pos_120(code)
        r20 == ret_nd(code, 20)
        r60 == ret_nd(code, 60)
    IN  IF IsExc(st) THEN st
        ELSE IF IsExc(pos) THEN pos
        ELSE IF IsExc(r20) THEN r20
        ELSE IF IsExc(r60) THEN r60
        ELSE None

(***************************************************************************)
(* The daily percentage change of one row                                  *)
(***************************************************************************)
\* round(num / den) to the nearest integer, ties to even (den > 0)
RoundHalfEven(num, den) ==
    LET q == num \div den
        r == num - q * den
    IN  IF 2 * r < den THEN q
        ELSE IF 2 * r > den THEN q + 1
        ELSE IF q % 2 = 0 THEN q ELSE q + 1

\* pct = (adj_close / p_adj_close - 1.0) * 100.0, then round(pct, 2):
\* the result in hundredths of a percent
PctOf(adj_close, p_adj_close) ==
    IF p_adj_close = 0 THEN ZeroDivisionError
    ELSE Val(RoundHalfEven((adj_close - p_adj_close) * 10000 * Sign(p_adj_close),
                           Abs(p_adj_close)))

\* the loop over daily.items() skips the instrument: it has no row
NoRow == [norow |-> TRUE]

\* r["pct_chg"] of the row built from today's close and adj_factor and the
\* previous open day's
pct_of(close, af, p_close, p_af) ==
    IF close = None \/ af = None THEN NoRow
    ELSE IF p_close # None /\ p_af # None
         THEN IF p_close.val * p_af.val # 0
              THEN PctOf(close.val * af.val, p_close.val * p_af.val)
              ELSE None
         ELSE None

\* the part of the state a specification does not use
IdleKpi ==
    /\ dominant_board = None
    /\ dominant_pattern = None
    /\ concl = <<>>

IdleFun ==
    /\ nums = <<>>
    /\ med = None
    /\ turnover_yi = None
    /\ turn_bucket = None

IdleStore ==
    /\ files = <<>>
    /\ daily_snapshot = <<>>
    /\ last_write = None

IdleEod ==
    /\ job = <<>>
    /\ lock = None
    /\ job_runs = <<>>

IdleOther == IdleFun /\ IdleStore /\ IdleEod

IdleTable ==
    /\ rows = <<>>
    /\ top200 = <<>>
    /\ pattern_groups = <<>>
    /\ provMarket = <<>>
    /\ IdleKpi

IdleHist ==
    /\ err = None
    /\ open_days = <<>>
    /\ ts_code = None
    /\ provHist = None
    /\ provBasic = <<>>
    /\ universe = <<>>
    /\ provCal = 0
    /\ provOrder = "asc"
    /\ pct_chg = NoRow
    /\ top_codes = <<>>
    /\ series_map = <<>>
    /\ streak = None
    /\ written = {}
    /\ IdleTable

InitPick ==
    /\ pc = "labelling"
    /\ labels = <<>>
    /\ pattern = "none"
    /\ IdleHist
    /\ IdleOther

AppendLabel(l) ==
    /\ pc = "labelling"
    /\ ~ InList(l, labels)
    /\ labels' = Append(labels, l)
    /\ UNCHANGED <<pc, pattern, histVars>>

PickPrimary ==
    /\ pc = "labelling"
    /\ pattern' = pick_primary(labels)
    /\ pc' = "picked"
    /\ UNCHANGED <<labels, histVars>>

NextPick ==
    \/ \E l \in AllLabels : AppendLabel(l)
    \/ PickPrimary

SpecPick == InitPick /\ [][NextPick]_vars

(***************************************************************************)
(* SpecHist: one instrument followed through a run of main(): the trading  *)
(* calendar, its row and percentage change, its adjusted series, its       *)
(* labels, and the snapshot files.  The data provider's answers are fixed  *)
(* by Init; dates are the ordinals 1..provCal of the open days (YYYYMMDD   *)
(* strings compare as these numbers do).                                   *)
(***************************************************************************)
\* the trailing history window, in open days
HistWindow == 260

\* the open days of the largest calendar the provider is given
MaxCal == 262

\* the number of trailing bars of a history that are drawn freely
MaxTail == 2

FlatBar(p) == [o |-> p, h |-> p, l |-> p, c |-> p]
BarF == FlatBar(1000)
BarZ == FlatBar(0)
BarX == [o |-> 850, h |-> 1000, l |-> 100, c |-> 850]
BarP1 == FlatBar(1098)
BarP2 == FlatBar(1198)
BarB == [o |-> 1000, h |-> 1100, l |-> 1000, c |-> 1100]
BarW == [o |-> 300, h |-> 1100, l |-> 100, c |-> 300]
BarK == FlatBar(339)
BarL == FlatBar(340)
BarM == FlatBar(345)

BaseBars == {BarF, BarX, BarZ}
TailBars == {BarF, BarP1, BarP2, BarB, BarZ}
Tails == [1..MaxTail -> TailBars]

MainCode == [num |-> "600", exch |-> "SH"]

Codes == { MainCode,
           [num |-> "300", exch |-> "SZ"],
           [num |-> "688", exch |-> "SH"] }

BJCode == [num |-> "830", exch |-> "BJ"]

\* a name of stock_basic is what the filter reads of it: whether "ST" occurs
\* in name.upper(), and whether the delisting character occurs in it
PlainName == [st |-> FALSE, tui |-> FALSE]

Names == [st : BOOLEAN, tui : BOOLEAN]

BasicRow(c, n) == [ts_code |-> c, name |-> n]

\* the history lengths drawn: around every window length the indicators test
HistLens == {0, 1, 2, 3, 9, 10, 20, 21, 29, 30, 59, 60, 61, 120, 260, MaxCal}

BoardLens == {0, 1, 2, 3, 21}

\* The provider's data of the instrument, provHist: it is listed for the last
\* m of the provCal open days; its raw bar is `base` on every day but the
\* last Len(tail), which have the bars of tail; its adj_factor is 1; and on
\* the date gap one thing is wrong: the bar is missing ("nobar"), its close
\* is null ("nullclose"), the factor is missing ("noaf") or null ("nullaf").
Hist(m, base, tail, kind, gap) ==
    [m |-> m, base |-> base, tail |-> tail, kind |-> kind, gap |-> gap]

GapKinds == {"nobar", "nullclose", "noaf", "nullaf"}

Listed(hist, d) == provCal - hist.m + 1 <= d /\ d <= provCal

\* the instrument has a row of daily, and of adj_factor, on date d
HasBar(hist, d) == Listed(hist, d) /\ ~ (hist.kind = "nobar" /\ d = hist.gap)
HasAf(hist, d) == Listed(hist, d) /\ ~ (hist.kind = "noaf" /\ d = hist.gap)

\* the row of daily on date d: every field a number, or null
BarRow(hist, d) ==
    LET k == d - (provCal - Len(hist.tail))
        bar == IF k >= 1 THEN hist.tail[k] ELSE hist.base
    IN  [o |-> Val(bar.o), h |-> Val(bar.h), l |-> Val(bar.l),
         c |-> IF hist.kind = "nullclose" /\ d = hist.gap
               THEN None ELSE Val(bar.c)]

\* the adj_factor on date d, or null
AfRow(hist, d) ==
    IF hist.kind = "nullaf" /\ d = hist.gap THEN None ELSE Val(1)

InitRun ==
    /\ pc = "start"
    /\ labels = <<>>
    /\ pattern = "none"
    /\ err = None
    /\ open_days = <<>>
    /\ universe = <<>>
    /\ pct_chg = NoRow
    /\ top_codes = <<>>
    /\ series_map = <<>>
    /\ streak = None
    /\ written = {}
    /\ rows = <<>>
    /\ top200 = <<>>
    /\ pattern_groups = <<>>
    /\ IdleKpi
    /\ IdleOther

\* complete data of a main-board instrument: every price shape, every
\* history length
InitPrices ==
    /\ InitRun
    /\ provCal = MaxCal
    /\ provOrder = "asc"
    /\ ts_code = MainCode
    /\ provBasic = <<BasicRow(ts_code, PlainName)>>
    /\ \E m \in HistLens, base \in BaseBars, tail \in Tails :
          provHist = Hist(m, base, tail, "full", 0)

\* complete data of an instrument of any board, with a short history
InitBoards ==
    /\ InitRun
    /\ provCal = MaxCal
    /\ provOrder = "asc"
    /\ ts_code \in Codes
    /\ provBasic = <<BasicRow(ts_code, PlainName)>>
    /\ \E m \in BoardLens, base \in BaseBars, tail \in Tails :
          provHist = Hist(m, base, tail, "full", 0)

\* defective data: a missing or null bar or factor on one of the last days,
\* or no row at all in answer to the query for the history
InitGaps ==
    /\ InitRun
    /\ provCal \in {0, 1, 2, MaxCal}
    /\ provOrder \in {"asc", "desc"}
    /\ ts_code = MainCode
    /\ provBasic = <<BasicRow(ts_code, PlainName)>>
    /\ \E m \in {0, 1, 2, 3, 60, MaxCal}, base \in {BarF, BarX},
          kind \in GapKinds \cup {"full", "nohist"}, off \in 0..3 :
          /\ m <= provCal
          /\ kind \in GapKinds => off < m
          /\ kind \notin GapKinds => off = 0
          /\ provHist = Hist(m, base, <<BarP1>>, kind, provCal - off)

\* every answer to stock_basic about the instrument
InitUniverse ==
    /\ InitRun
    /\ provCal \in {0, 2}
    /\ provOrder = "asc"
    /\ ts_code \in Codes \cup {BJCode}
    /\ provBasic \in {<<>>} \cup { <<BasicRow(c, n)>> : c \in {ts_code, None}, n \in Names }
    /\ \E m \in {0, 2} : provHist = Hist(m, BarF, <<BarP1>>, "full", 0)

\* the history lengths around the windows of the low breakout and of the
\* box-bottom lift-off
BoxLens == {9, 10, 11, 29, 30, 59, 60, 120}

\* flat bars near the bottom of the box of BarW: below the base close, a
\* gain of less and of more than 0.5% and than 9.8%, and positions around
\* 0.25 and 0.30 of the range
BoxBars ==
    {BarW, FlatBar(260), FlatBar(302), FlatBar(330), BarK, BarL, FlatBar(350),
     FlatBar(351), FlatBar(363), FlatBar(400), FlatBar(405)}

\* complete data of a main-board instrument in a wide box, its last two
\* bars near the bottom of the box
InitBox ==
    /\ InitRun
    /\ provCal = MaxCal
    /\ provOrder = "asc"
    /\ ts_code = MainCode
    /\ provBasic = <<BasicRow(ts_code, PlainName)>>
    /\ \E m \in BoxLens, tail \in [1..2 -> BoxBars] :
          provHist = Hist(m, BarW, tail, "full", 0)

InitHist ==
    /\ InitPrices \/ InitBoards \/ InitGaps \/ InitUniverse \/ InitBox
    /\ provMarket = <<>>

\* the dates lo..hi in the order of the provider's responses
InOrder(lo, hi) ==
    IF provOrder = "asc" THEN [i \in 1..(hi - lo + 1) |-> lo + i - 1]
    ELSE [i \in 1..(hi - lo + 1) |-> hi - i + 1]

\* the responses of the provider to the queries of daily and of adj_factor
\* for start_date lo and end_date hi: the dates of the rows, one row for
\* each date in lo..hi that has one, in the provider's order
DailyResponse(hist, lo, hi) ==
    IF hist.kind = "nohist" THEN <<>>
    ELSE SelectSeq(InOrder(lo, hi), LAMBDA d : HasBar(hist, d))

AdjResponse(hist, lo, hi) ==
    IF hist.kind = "nohist" THEN <<>>
    ELSE SelectSeq(InOrder(lo, hi), LAMBDA d : HasAf(hist, d))

trade_date == open_days[Len(open_days)]

prev_date == IF Len(open_days) >= 2 THEN Val(open_days[Len(open_days) - 1]) ELSE None

hist_days == _slice_last(SelectSeq(open_days, LAMBDA d : d <= trade_date), HistWindow)

hist_start == IF Len(hist_days) > 0 THEN hist_days[1] ELSE trade_date

\* trade_cal, open_days, trade_date
FetchCalendar ==
    /\ pc = "start"
    /\ LET cal == IF provOrder = "asc" THEN [i \in 1..provCal |-> i]
                  ELSE [i \in 1..provCal |-> provCal + 1 - i]
       IN  IF Len(cal) = 0
           THEN /\ pc' = "raised"
                /\ err' = RuntimeError
                /\ UNCHANGED open_days
           ELSE /\ pc' = "calendar"
                /\ open_days' = SortSeq(cal, LAMBDA a, b : a < b)
                /\ UNCHANGED err
    /\ UNCHANGED <<labels, pattern, universe, pct_chg, top_codes, series_map,
                   streak, written, provVars, otherVars, tableVars>>

\* the ts_code of each row of a list
CodesOf(xs) == [i \in 1..Len(xs) |-> xs[i].ts_code]

\* stock_basic and the filters that leave the universe
FilterUniverse ==
    /\ pc = "calendar"
    /\ pc' = "universe"
    /\ universe' = CodesOf(SelectSeq(provBasic,
                                     LAMBDA x : /\ x.ts_code # None
                                                /\ x.ts_code.exch # "BJ"
                                                /\ ~ (x.name.st \/ x.name.tui)))
    /\ UNCHANGED <<labels, pattern, err, open_days, pct_chg, top_codes,
                   series_map, streak, written, provVars, otherVars, tableVars>>

InUniverse(code) == \E i \in 1..Len(universe) : universe[i] = code

\* r["pct_chg"] of an instrument that has a row of daily on the trade date T,
\* from the provider's data of T and of the previous open day P
RowPct(hist, T, P) ==
    LET close == BarRow(hist, T).c
        af == IF HasAf(hist, T) THEN AfRow(hist, T) ELSE None
        p_close == IF P # None /\ HasBar(hist, P.val)
                   THEN BarRow(hist, P.val).c ELSE None
        p_af == IF P # None /\ HasAf(hist, P.val)
                THEN AfRow(hist, P.val) ELSE None
    IN  pct_of(close, af, p_close, p_af)

\* the instrument's row of `rows`, its pct_chg, and top200
RankRow ==
    /\ pc = "universe"
    /\ LET T == trade_date
           P == prev_date
           pct == IF ~ InUniverse(ts_code) \/ ~ HasBar(provHist, T) THEN NoRow
                  ELSE RowPct(provHist, T, P)
       IN  IF IsExc(pct)
           THEN /\ pc' = "raised"
                /\ err' = pct
                /\ UNCHANGED <<pct_chg, top_codes>>
           ELSE /\ pc' = "ranked"
                /\ pct_chg' = pct
                /\ top_codes' = IF pct \in {NoRow, None} THEN <<>> ELSE <<ts_code>>
                /\ UNCHANGED err
    /\ UNCHANGED <<labels, pattern, open_days, universe, series_map, streak,
                   written, provVars, otherVars, tableVars>>

\* the rows the loop over drows keeps: td present and in af
KeptRows(drows, af) == SelectSeq(drows, LAMBDA d : d \in DOMAIN af)

HasNull(bar) == bar.o = None \/ bar.h = None \/ bar.l = None \/ bar.c = None

\* a plausible slip: the series is left in the order of the response
SortByDate_none(arr) == arr

\* arr.sort(key=lambda z: z["date"])
SortByDate(arr) == SortSeq(arr, LAMBDA a, b : a.date < b.date)

\* the adjusted series of a code from the responses of daily and adj_factor
BuildArr(hist, drows, af) ==
    LET kept == KeptRows(drows, af)
    IN  IF \E i \in 1..Len(kept) :
               float(af[kept[i]]) = TypeError \/ HasNull(BarRow(hist, kept[i]))
        THEN TypeError
        ELSE [arr |-> SortByDate([i \in 1..Len(kept) |->
                 LET td == kept[i]
                     x == BarRow(hist, td)
                     f == float(af[td]).val
                 IN  [date |-> td,
                      o |-> float(x.o).val * f,
                      h |-> float(x.h).val * f,
                      l |-> float(x.l).val * f,
                      c |-> float(x.c).val * f]])]

\* the loop over top_codes that fills series_map
BuildSeries ==
    /\ pc = "ranked"
    /\ IF Len(top_codes) = 0
       THEN /\ pc' = "series"
            /\ UNCHANGED <<series_map, err>>
       ELSE LET code == top_codes[1]
                drows == DailyResponse(provHist, hist_start, trade_date)
                arows == AdjResponse(provHist, hist_start, trade_date)
                af == [d \in Range(arows) |-> AfRow(provHist, d)]
                built == BuildArr(provHist, drows, af)
            IN  IF IsExc(built)
                THEN /\ pc' = "raised"
                     /\ err' = built
                     /\ UNCHANGED series_map
                ELSE /\ pc' = "series"
                     /\ series_map' = IF Len(built.arr) = 0 THEN series_map
                                      ELSE (code :> built.arr) @@ series_map
                     /\ UNCHANGED err
    /\ UNCHANGED <<labels, pattern, open_days, universe, pct_chg, top_codes,
                   streak, written, provVars, otherVars, tableVars>>

\* the label assignment loop over top200
LabelRow ==
    /\ pc = "series"
    /\ IF Len(top_codes) = 0
       THEN /\ pc' = "labelled"
            /\ UNCHANGED <<labels, pattern, streak, err>>
       ELSE LET c == top_codes[1]
                exc == LabelExc(c)
                st == limit_streak(c)
            IN  IF exc # None
                THEN /\ pc' = "raised"
                     /\ err' = exc
                     /\ UNCHANGED <<labels, pattern, streak>>
                ELSE /\ pc' = "labelled"
                     /\ streak' = st
                     /\ labels' = LabelsOf(c, st.val)
                     /\ pattern' = pick_primary(LabelsOf(c, st.val))
                     /\ UNCHANGED err
    /\ UNCHANGED <<open_days, universe, pct_chg, top_codes, series_map, written,
                   provVars, otherVars, tableVars>>

\* <date>.json, latest.json and index.json are written
WriteSnapshot ==
    /\ pc = "labelled"
    /\ pc' = "done"
    /\ written' = {"date.json", "latest.json", "index.json"}
    /\ UNCHANGED <<labels, pattern, err, open_days, universe, pct_chg, top_codes,
                   series_map, streak, provVars, otherVars, tableVars>>

NextHist ==
    \/ FetchCalendar
    \/ FilterUniverse
    \/ RankRow
    \/ BuildSeries
    \/ LabelRow
    \/ WriteSnapshot

SpecHist == InitHist /\ [][NextHist]_vars

(***************************************************************************)
(* SpecRank: the whole table through a run of main(): the rows of the      *)
(* instruments of the daily response, their ranking and truncation, the    *)
(* series and the labels of the ranked rows, and the pattern groups.  The  *)
(* provider's market, provMarket, lists the instruments in the order of    *)
(* its answer to the `daily` query of the trade date (one row for each     *)
(* instrument asked for that has one; the universe fits one chunk of 500). *)
(***************************************************************************)
\* rows[:200]
TopN == 200

\* [:8] of a pattern group
GroupSize == 8

\* -999, the sort key `x.get("pct_chg") or -999`, in hundredths of a percent
MissingKey == (0 - 999) * 100

\* the number of instruments at the end of the market that are drawn freely
MaxFree == 2

\* the provider's data of an instrument of the market, by what it does to
\* the row: a gain of 9.8%, no change, a loss, no previous day, a previous
\* close of 0, no adj_factor on the trade date
QUp == Hist(2, BarF, <<BarP1>>, "full", 0)
QFlat == Hist(2, BarF, <<BarF>>, "full", 0)
QDown == Hist(2, BarP1, <<BarF>>, "full", 0)
QNew == Hist(1, BarF, <<BarF>>, "full", 0)
QZero == Hist(2, BarZ, <<BarF>>, "full", 0)
QNoAf == Hist(2, BarF, <<BarP1>>, "noaf", MaxCal)

\* sixty bars in a wide box with the close near its bottom and the last two
\* closes above the 20-day mean; the last close is unchanged, lower, higher
QLift0 == Hist(60, BarW, <<BarL, BarL>>, "full", 0)
QLiftNeg == Hist(60, BarW, <<BarM, BarL>>, "full", 0)
QLiftPos == Hist(60, BarW, <<BarK, BarL>>, "full", 0)

Quotes == {QUp, QDown, QZero, QNoAf}
Fillers == {QUp, QFlat, QNew}
TailQuotes == {QUp, QFlat, QNew}
LiftQuotes == {QLift0, QLiftNeg, QLiftPos}

\* the market sizes drawn: around TopN
FillerCounts == {0, TopN - MaxFree - 1, TopN - MaxFree, TopN + 1}

\* the pattern group sizes drawn: around GroupSize
GroupCounts == {0, GroupSize - MaxFree, GroupSize - 1, GroupSize}

\* the ts_code of the i-th instrument of the market
CodeOf(i) == [num |-> "600", exch |-> "SH", id |-> i]

\* the provider's data of the instrument with this ts_code
HistOf(code) == provMarket[code.id].hist

\* a run on a market whose instruments have these codes and data; the names
\* of those at the places st have "ST" in them
InitTableOf(codes, hists, st) ==
    /\ InitRun
    /\ provCal = MaxCal
    /\ provOrder = "asc"
    /\ ts_code = None
    /\ provHist = None
    /\ provMarket = [i \in 1..Len(hists) |->
                        [ts_code |-> codes[i], hist |-> hists[i]]]
    /\ provBasic = [i \in 1..Len(hists) |->
                       BasicRow(codes[i], IF i \in st
                                          THEN [st |-> TRUE, tui |-> FALSE]
                                          ELSE PlainName)]

\* the same on the main board
InitTable(hists, st) ==
    InitTableOf([i \in 1..Len(hists) |-> CodeOf(i)], hists, st)

\* a market of up to TopN + MaxFree + 2 instruments: one instrument, then
\* n alike, then MaxFree more
InitMarket ==
    \E head \in Quotes, filler \in Fillers, n \in FillerCounts,
       tail \in [1..MaxFree -> TailQuotes], st \in {{}, {1}} :
       /\ st = {1} => head = QUp
       /\ InitTable(<<head>> \o [i \in 1..n |-> filler] \o tail, st)

\* a small market of instruments with long histories
InitLiftoff ==
    \E head \in LiftQuotes, filler \in {QLiftNeg, QLiftPos}, n \in GroupCounts,
       tail \in [1..MaxFree -> {QLift0, QLiftNeg, QUp}] :
       InitTable(<<head>> \o [i \in 1..n |-> filler] \o tail, {})

\* two limit-up days in a row; a first limit-up day 50% above the close of
\* 20 bars before
QUp2 == Hist(3, BarF, <<BarP1, FlatBar(1210)>>, "full", 0)
QHigh == Hist(22, BarF, <<FlatBar(1500)>>, "full", 0)

MaxMix == 3

\* instruments of the three boards with different patterns
MixKinds ==
    {[num |-> "600", exch |-> "SH", hist |-> QUp],
     [num |-> "300", exch |-> "SZ", hist |-> QUp],
     [num |-> "688", exch |-> "SH", hist |-> QFlat],
     [num |-> "600", exch |-> "SH", hist |-> QLift0],
     [num |-> "600", exch |-> "SH", hist |-> QUp2],
     [num |-> "688", exch |-> "SH", hist |-> QHigh]}

\* a market of up to MaxMix instruments of any boards and patterns
InitMix ==
    \E n \in 0..MaxMix : \E ks \in [1..n -> MixKinds] :
        InitTableOf([i \in 1..n |->
                        [num |-> ks[i].num, exch |-> ks[i].exch, id |-> i]],
                    [i \in 1..n |-> ks[i].hist], {})

InitRank == InitMarket \/ InitLiftoff \/ InitMix

\* a dict filled with the keys ks in this order: its items, each a key and
\* the count of its occurrences, in insertion order
CountItems(ks) ==
    LET firsts == SelectSeq([i \in 1..Len(ks) |-> i],
                            LAMBDA i : \A j \in 1..(i - 1) : ks[j] # ks[i])
    IN  [m \in 1..Len(firsts) |->
            [k |-> ks[firsts[m]],
             v |-> Cardinality({i \in 1..Len(ks) : ks[i] = ks[firsts[m]]})]]

\* sorted(items, key=lambda kv: kv[1], reverse=True)[0][0]: a stable sort
MostFrequent(items) == SortSeq(items, LAMBDA a, b : a.v > b.v)[1].k

\* a plausible slip: the sort is ascending and its last item is taken
DominantBoard_last(top) ==
    IF Len(top) = 0 THEN None
    ELSE LET items == SortSeq(CountItems([i \in 1..Len(top) |-> top[i].board]),
                              LAMBDA a, b : a.v < b.v)
         IN  Val(items[Len(items)].k)

\* dominant_board
DominantBoard(top) ==
    IF Len(top) = 0 THEN None
    ELSE Val(MostFrequent(CountItems([i \in 1..Len(top) |-> top[i].board])))

\* a plausible slip: the items of "none" are not left out
DominantPattern_all(top) ==
    IF Len(top) = 0 THEN None
    ELSE Val(MostFrequent(CountItems([i \in 1..Len(top) |-> top[i].pattern])))

\* dominant_pattern
DominantPattern(top) ==
    IF Len(top) = 0 THEN None
    ELSE LET pattern_cnt == CountItems([i \in 1..Len(top) |-> top[i].pattern])
             items == SelectSeq(pattern_cnt, LAMBDA kv : kv.k # "none")
         IN  Val(MostFrequent(IF Len(items) = 0 THEN pattern_cnt ELSE items))

\* concl: the parts of the text, each a phrase and what is put into it
Conclusion(db, dp) ==
    <<[text |-> "jinri_zhuanqian_xiaoying", arg |-> None]>>
    \o (IF db # None THEN <<[text |-> "zhanyou", arg |-> db]>> ELSE <<>>)
    \o (IF dp # None /\ dp # Val("none")
        THEN <<[text |-> "xingtai_yi_wei_zhu", arg |-> dp]>>
        ELSE <<[text |-> "xingtai_fensan", arg |-> None]>>)

\* dominant_pattern and concl
SetDominant(dp) ==
    /\ dominant_pattern' = dp
    /\ concl' = Conclusion(dominant_board, dp)

\* a plausible slip: reverse=True is left out
SortByPct_asc(rs) == SortSeq(rs, LAMBDA a, b : a.pct_chg.val < b.pct_chg.val)

\* rows.sort(key=lambda x: x.get("pct_chg"), reverse=True): a stable sort
SortByPct(rs) == SortSeq(rs, LAMBDA a, b : a.pct_chg.val > b.pct_chg.val)

\* arr[:n]
_first(arr, n) == IF Len(arr) > n THEN SubSeq(arr, 1, n) ELSE arr

\* daily: the instruments of the response to the `daily` query of the trade
\* date for the codes asked, in its order
DailyRows(asked) ==
    SelectSeq(provMarket,
              LAMBDA x : x.ts_code \in asked /\ HasBar(x.hist, trade_date))

\* the row of each instrument of daily; its pct_chg is NoRow when the loop
\* skips the instrument
BuiltRows(daily) ==
    [i \in 1..Len(daily) |->
        [ts_code |-> daily[i].ts_code,
         pct_chg |-> RowPct(daily[i].hist, trade_date, prev_date),
         board |-> _board(daily[i].ts_code),
         pattern |-> "none",
         streak |-> None,
         pattern_labels |-> None]]

\* rows = [r for r in rows if r.get("pct_chg") is not None], then the sort
SortedRows(built) ==
    SortByPct(SelectSeq(built, LAMBDA r : r.pct_chg # NoRow /\ r.pct_chg # None))

\* top200 = rows[:200] and top_codes
TakeTop(sorted, top) ==
    /\ rows' = sorted
    /\ top200' = top
    /\ top_codes' = CodesOf(top)
    /\ dominant_board' = DominantBoard(top)

RankBuilt(built, sorted) ==
    IF \E i \in 1..Len(built) : IsExc(built[i].pct_chg)
    THEN /\ pc' = "raised"
         /\ err' = ZeroDivisionError
         /\ UNCHANGED <<rows, top200, top_codes, dominant_board>>
    ELSE /\ pc' = "ranked"
         /\ TakeTop(sorted, _first(sorted, TopN))
         /\ UNCHANGED err

RankAll(built) == RankBuilt(built, SortedRows(built))

\* rows, their pct_chg, the sort and top200
RankTable ==
    /\ pc = "universe"
    /\ RankAll(BuiltRows(DailyRows(Range(universe))))
    /\ UNCHANGED <<labels, pattern, open_days, universe, pct_chg, series_map,
                   streak, written, provVars, dominant_pattern, concl, restVars,
                   pattern_groups, provMarket>>

\* the series of each of these data, or TypeError
BuiltSeries(hists) ==
    [h \in hists |->
        BuildArr(h, DailyResponse(h, hist_start, trade_date),
                 LET arows == AdjResponse(h, hist_start, trade_date)
                 IN  [d \in Range(arows) |-> AfRow(h, d)])]

\* series_map[code] = arr, unless arr is empty
FillSeriesMap(built) ==
    IF \E h \in DOMAIN built : IsExc(built[h])
    THEN /\ pc' = "raised"
         /\ err' = TypeError
         /\ UNCHANGED series_map
    ELSE /\ pc' = "series"
         /\ series_map' =
               [c \in { x \in Range(top_codes) : Len(built[HistOf(x)].arr) > 0 } |->
                   built[HistOf(c)].arr]
         /\ UNCHANGED err

\* the loop over top_codes that fills series_map; instruments with the same
\* data get the same series
BuildSeriesMap ==
    /\ pc = "ranked"
    /\ FillSeriesMap(BuiltSeries({ HistOf(top_codes[i]) : i \in 1..Len(top_codes) }))
    /\ UNCHANGED <<labels, pattern, open_days, universe, pct_chg, top_codes,
                   streak, written, provVars, otherVars, tableVars>>

\* the row r after the body of the label assignment loop, for streak st and
\* the list ls of its labels
LabelledAs(r, st, ls) ==
    [ts_code |-> r.ts_code,
     pct_chg |-> r.pct_chg,
     board |-> r.board,
     pattern |-> pick_primary(ls),
     streak |-> st,
     pattern_labels |-> ls]

\* what the loop body of the label assignment does for row r: the exception
\* it raises, or the streak and the labels
LabelInfo(r) ==
    IF LabelExc(r.ts_code) # None
    THEN [raised |-> LabelExc(r.ts_code)]
    ELSE [raised |-> None,
          st |-> limit_streak(r.ts_code),
          ls |-> LabelsOf(r.ts_code, limit_streak(r.ts_code).val)]

\* what the series and the threshold of a row depend on
DataOf(r) == [hist |-> HistOf(r.ts_code), board |-> r.board]

\* LabelInfo of the rows of top; rows of the same data have the same
LabelInfos(top) ==
    [k \in { DataOf(top[i]) : i \in 1..Len(top) } |->
        LabelInfo(top[CHOOSE i \in 1..Len(top) : DataOf(top[i]) = k])]

\* the rows of top200 are rows of `rows` too
SetLabelled(top) ==
    /\ SetDominant(DominantPattern(top))
    /\ top200' = top
    /\ rows' = [i \in 1..Len(rows) |-> IF i <= Len(top) THEN top[i] ELSE rows[i]]

\* the loop ends at the first row that raises
LabelRows(infos) ==
    IF \E k \in DOMAIN infos : infos[k].raised # None
    THEN /\ pc' = "raised"
         /\ err' = infos[DataOf(top200[CHOOSE i \in 1..Len(top200) :
                       /\ infos[DataOf(top200[i])].raised # None
                       /\ \A j \in 1..(i - 1) :
                             infos[DataOf(top200[j])].raised = None])].raised
         /\ UNCHANGED <<rows, top200, dominant_pattern, concl>>
    ELSE /\ pc' = "labelled"
         /\ SetLabelled([i \in 1..Len(top200) |->
                           LabelledAs(top200[i], infos[DataOf(top200[i])].st,
                                      infos[DataOf(top200[i])].ls)])
         /\ UNCHANGED err

\* the label assignment loop over top200
LabelTable ==
    /\ pc = "series"
    /\ LabelRows(LabelInfos(top200))
    /\ UNCHANGED <<labels, pattern, open_days, universe, pct_chg, top_codes,
                   series_map, streak, written, provVars, dominant_board,
                   restVars, pattern_groups, provMarket>>

\* x.get("pct_chg") or -999
GroupKey(x) ==
    IF x.pct_chg = None THEN MissingKey
    ELSE IF x.pct_chg.val = 0 THEN MissingKey
    ELSE x.pct_chg.val

\* grp: ts_code and pct_chg of the items of a group
GroupOf(items) ==
    [i \in 1..Len(items) |->
        [ts_code |-> items[i].ts_code, pct_chg |-> items[i].pct_chg]]

\* sorted(items, key=lambda x: x.get("pct_chg") or -999, reverse=True)[:8]
SortedItems(items) ==
    _first(SortSeq(items, LAMBDA a, b : GroupKey(a) > GroupKey(b)), GroupSize)

\* pattern_groups of top200
PatternGroups(top) ==
    [p \in { top[i].pattern : i \in 1..Len(top) } \ {"none"} |->
        GroupOf(SortedItems(SelectSeq(top, LAMBDA r : r.pattern = p)))]

\* pattern_groups, and the snapshot written with it
EmitSnapshot ==
    /\ pc = "labelled"
    /\ pc' = "done"
    /\ pattern_groups' = PatternGroups(top200)
    /\ written' = {"date.json", "latest.json", "index.json"}
    /\ UNCHANGED <<labels, pattern, err, open_days, universe, pct_chg, top_codes,
                   series_map, streak, provVars, otherVars, rows, top200, provMarket>>

NextRank ==
    \/ FetchCalendar
    \/ FilterUniverse
    \/ RankTable
    \/ BuildSeriesMap
    \/ LabelTable
    \/ EmitSnapshot

SpecRank == InitRank /\ [][NextRank]_vars

(***************************************************************************)
(* SpecKpi: the two pure helpers of the row and KPI computation, _median   *)
(* and _turn_bucket_yi, applied to arguments drawn by Init.  A turnover is *)
(* an integer number of hundredths of 100 million (1000 is 10.0, 300 is    *)
(* 3.0); the mean of the two middle values is kept exact as [num, den];    *)
(* the buckets are ">10yi", "3-10yi" and "<3yi", a bucket that may be None *)
(* being Val(bucket).                                                      *)
(***************************************************************************)
MaxLen == 4

Nums == {10, 20, 30}

\* all the lists of length n over the set S
RECURSIVE ListsOf(_, _)
ListsOf(S, n) ==
    IF n = 0 THEN {<<>>}
    ELSE {Append(xs, x) : xs \in ListsOf(S, n - 1), x \in S}

NumLists == UNION {ListsOf({None} \cup {Val(x) : x \in Nums}, n) : n \in 0..MaxLen}

Turnovers == {0, 299, 300, 301, 999, 1000, 1001, 5000}

\* xs = [x for x in nums if x is not None], as the numbers themselves
NotNone(ns) ==
    LET kept == SelectSeq(ns, LAMBDA x : x # None)
    IN  [i \in 1..Len(kept) |-> kept[i].val]

_median_unsorted(ns) ==
    LET xs == NotNone(ns)
        n == Len(xs)
        mid == n \div 2
    IN  IF n = 0 THEN None
        ELSE IF n % 2 = 1 THEN [num |-> xs[mid + 1], den |-> 1]
        ELSE [num |-> xs[mid] + xs[mid + 1], den |-> 2]

_median(ns) ==
    LET xs == SortSeq(NotNone(ns), LAMBDA a, b : a < b)
        n == Len(xs)
        mid == n \div 2
    IN  IF n = 0 THEN None
        ELSE IF n % 2 = 1 THEN [num |-> xs[mid + 1], den |-> 1]
        ELSE [num |-> xs[mid] + xs[mid + 1], den |-> 2]

_turn_bucket_yi_ge(t) ==
    IF t = None THEN None
    ELSE IF t.val >= 1000 THEN Val(">10yi")
    ELSE IF t.val >= 300 THEN Val("3-10yi")
    ELSE Val("<3yi")

_turn_bucket_yi(t) ==
    IF t = None THEN None
    ELSE IF t.val > 1000 THEN Val(">10yi")
    ELSE IF t.val >= 300 THEN Val("3-10yi")
    ELSE Val("<3yi")

\* no run of main() has started
IdleMain ==
    /\ labels = <<>>
    /\ pattern = "none"
    /\ IdleHist

InitKpi ==
    /\ pc = "start"
    /\ nums \in NumLists
    /\ med = None
    /\ turnover_yi \in {None} \cup {Val(t) : t \in Turnovers}
    /\ turn_bucket = None
    /\ IdleMain
    /\ IdleStore
    /\ IdleEod

\* med = _median(nums)
CallMedian ==
    /\ pc = "start"
    /\ med' = _median(nums)
    /\ pc' = "median"
    /\ UNCHANGED <<nums, turnover_yi, turn_bucket, mainVars, storeVars, eodVars>>

\* turn_bucket = _turn_bucket_yi(turnover_yi)
CallTurnBucket ==
    /\ pc = "median"
    /\ turn_bucket' = _turn_bucket_yi(turnover_yi)
    /\ pc' = "done"
    /\ UNCHANGED <<nums, med, turnover_yi, mainVars, storeVars, eodVars>>

NextKpi == CallMedian \/ CallTurnBucket

SpecKpi == InitKpi /\ [][NextKpi]_vars

(***************************************************************************)
(* SpecStore: the snapshot store through a sequence of runs of main() and  *)
(* of calls of upsert_daily_snapshot.  A string is the sequence of its     *)
(* character codes; the content of a snapshot other than its date is one   *)
(* of Bodies.  files has the <date>.json files by name, latest.json and    *)
(* the dates of index.json; daily_snapshot is the list of the table's      *)
(* rows; last_write records, for each trade date, the snapshot of the      *)
(* latest run and of the latest upsert for it, the snapshot of the latest  *)
(* run of all, and the number of writes.                                   *)
(***************************************************************************)
MaxWrites == 3

\* the string of these decimal digits
Str(ds) == [i \in 1..Len(ds) |-> 48 + ds[i]]

\* "-"
Dash == 45

\* the trade dates drawn, YYYYMMDD: two of them differ in the year only
Dates == {Str(<<2, 0, 2, 3, 1, 2, 2, 9>>), Str(<<2, 0, 2, 4, 0, 1, 0, 2>>),
          Str(<<2, 0, 2, 5, 0, 1, 0, 2>>)}

Bodies == {"a", "b"}

\* a < b for strings: the first differing character decides, a proper prefix
\* comes first
StrLess(a, b) ==
    \E i \in 1..(Len(b)) :
        /\ \A j \in 1..(i - 1) : j <= Len(a) /\ a[j] = b[j]
        /\ \/ i > Len(a)
           \/ i <= Len(a) /\ a[i] < b[i]

\* a plausible slip: the year is left out of the key
_to_date_ymd_md(tdate) ==
    SubSeq(tdate, 5, 6) \o <<Dash>> \o SubSeq(tdate, 7, 8)

\* "%s-%s-%s" % (s[:4], s[4:6], s[6:8])
_to_date_ymd(tdate) ==
    SubSeq(tdate, 1, 4) \o <<Dash>> \o SubSeq(tdate, 5, 6)
    \o <<Dash>> \o SubSeq(tdate, 7, 8)

\* the number written by these digit characters
IntOf(s) ==
    LET f[i \in 0..Len(s)] == IF i = 0 THEN 0 ELSE 10 * f[i - 1] + (s[i] - 48)
    IN  f[Len(s)]

\* dt.date.fromisoformat of a YYYY-MM-DD string
fromisoformat(s) ==
    [year |-> IntOf(SubSeq(s, 1, 4)), month |-> IntOf(SubSeq(s, 6, 7)),
     day |-> IntOf(SubSeq(s, 9, 10))]

\* out: the snapshot of a run for this trade date
Snapshot(tdate, body) == [date |-> _to_date_ymd(tdate), body |-> body]

\* the unique key of daily_snapshot: the row is of this trade date
DuplicateKey(row, d) == row.trade_date = d

\* INSERT INTO daily_snapshot ... ON DUPLICATE KEY UPDATE json_data
upsert_daily_snapshot(table, trade_date_ymd, payload) ==
    LET d == fromisoformat(trade_date_ymd)
        j == [json |-> payload]
    IN  IF \E i \in 1..Len(table) : DuplicateKey(table[i], d)
        THEN [i \in 1..Len(table) |->
                 IF DuplicateKey(table[i], d)
                 THEN [trade_date |-> d, json_data |-> j]
                 ELSE table[i]]
        ELSE Append(table, [trade_date |-> d, json_data |-> j])

\* a plausible slip: the list is not sorted after the append
IndexWith_nosort(dates, date_key) ==
    IF \E i \in 1..Len(dates) : dates[i] = date_key THEN dates
    ELSE Append(dates, date_key)

\* idx["dates"] after the append and the descending sort
IndexWith(dates, date_key) ==
    IF \E i \in 1..Len(dates) : dates[i] = date_key THEN dates
    ELSE SortSeq(Append(dates, date_key), LAMBDA a, b : StrLess(b, a))

\* <date>.json, latest.json and index.json after a run that wrote out
FilesWith(fs, out) ==
    [snap |-> [n \in DOMAIN fs.snap \cup {out.date} |->
                  IF n = out.date THEN out ELSE fs.snap[n]],
     latest |-> out,
     index |-> IndexWith(fs.index, out.date)]

InitStore ==
    /\ pc = "store"
    /\ files = [snap |-> <<>>, latest |-> None, index |-> <<>>]
    /\ daily_snapshot = <<>>
    /\ last_write = [run |-> [d \in Dates |-> None],
                     upsert |-> [d \in Dates |-> None], latest |-> None,
                     n |-> 0]
    /\ IdleMain
    /\ IdleFun
    /\ IdleEod

\* a run of main() for this trade date ends by writing its snapshot
RunMain(tdate, body) ==
    /\ last_write.n < MaxWrites
    /\ files' = FilesWith(files, Snapshot(tdate, body))
    /\ last_write' = [last_write EXCEPT !.run[tdate] = Snapshot(tdate, body),
                                        !.latest = Snapshot(tdate, body),
                                        !.n = @ + 1]
    /\ UNCHANGED <<pc, daily_snapshot, mainVars, funVars, eodVars>>

\* a call of upsert_daily_snapshot with the snapshot of this trade date
Upsert(tdate, body) ==
    /\ last_write.n < MaxWrites
    /\ daily_snapshot' = upsert_daily_snapshot(daily_snapshot, _to_date_ymd(tdate),
                                               Snapshot(tdate, body))
    /\ last_write' = [last_write EXCEPT !.upsert[tdate] = Snapshot(tdate, body),
                                        !.n = @ + 1]
    /\ UNCHANGED <<pc, files, mainVars, funVars, eodVars>>

NextStore ==
    \/ \E d \in Dates, b \in Bodies : RunMain(d, b)
    \/ \E d \in Dates, b \in Bodies : Upsert(d, b)

SpecStore == InitStore /\ [][NextStore]_vars

(***************************************************************************)
(* SpecEod: invocations of run_eod.main(), interleaved at their blocking   *)
(* calls.  job[p] is the state of invocation p: where it is (pc), whether  *)
(* its environment has TUSHARE_TOKEN, the answer of is_trade_day, the      *)
(* commands it has run with their outcomes (ran), the index of the next    *)
(* attempt, last_err, used_n, and the exception it ended with (raised).    *)
(* The outcome of each external call is drawn when it is made; log_job_run *)
(* returns normally.                                                       *)
(***************************************************************************)
MaxProcs == 2

Procs == 1..MaxProcs

\* a plausible slip: the attempts are not in descending order
attempts_unordered == <<35, 18, 25>>

\* attempts = [35, 25, 18]
attempts == <<35, 25, 18>>

\* a command that has been run: its name, its pattern-top-n (0 when it has
\* none) and whether it returned 0
Step(cmd, n, ok) == [cmd |-> cmd, n |-> n, ok |-> ok]

\* the RuntimeError of run() for a command that failed
CmdError(cmd, n) == [exc |-> "RuntimeError", cmd |-> cmd, n |-> n]

BlockingIOError == [exc |-> "BlockingIOError", cmd |-> "flock", n |-> 0]

SystemExit == [exc |-> "SystemExit", cmd |-> "main", n |-> 0]

\* log_job_run: one more row of job_runs, written by invocation p
log_job_run(table, job_name, status, p) ==
    Append(table, [job_name |-> job_name, status |-> status, by |-> p])

\* a plausible slip: the lock is shared, so it is always granted
flock_granted_shared(holder) == TRUE

\* fcntl.flock(lf.fileno(), LOCK_EX | LOCK_NB) is granted
flock_granted(holder) == holder = None

\* the invocation has run this command
Ran(j, cmd, n, ok) == [j EXCEPT !.ran = Append(@, Step(cmd, n, ok))]

\* the invocation ends: with an exception, or by returning 0
Ends(j, e) == [j EXCEPT !.pc = "exit", !.raised = e]

Fresh(token) ==
    [pc |-> "init", token |-> token, open |-> "unknown", ran |-> <<>>, i |-> 1,
     last_err |-> None, used_n |-> None, raised |-> None]

InitEod ==
    /\ pc = "eod"
    /\ job \in [Procs -> {Fresh(t) : t \in BOOLEAN}]
    /\ lock = None
    /\ job_runs = <<>>
    /\ IdleMain
    /\ IdleFun
    /\ IdleStore

\* load_env and the token check
Start(p) ==
    /\ job[p].pc = "init"
    /\ job' = [job EXCEPT ![p] = IF job[p].token
                                 THEN [@ EXCEPT !.pc = "lock"]
                                 ELSE Ends(@, SystemExit)]
    /\ UNCHANGED <<pc, lock, job_runs, mainVars, funVars, storeVars>>

\* LOCK.open("w") and flock: granted, or BlockingIOError at once
TryLock(p) ==
    /\ job[p].pc = "lock"
    /\ IF flock_granted(lock)
       THEN /\ lock' = Val(p)
            /\ job' = [job EXCEPT ![p].pc = "trade_cal"]
       ELSE /\ job' = [job EXCEPT ![p] = Ends(@, BlockingIOError)]
            /\ UNCHANGED lock
    /\ UNCHANGED <<pc, job_runs, mainVars, funVars, storeVars>>

\* is_trade_day(today, token): True, False, or an exception
TradeDay(p, res) ==
    /\ job[p].pc = "trade_cal"
    /\ IF res = "open"
       THEN /\ job' = [job EXCEPT ![p] =
                          [Ran(@, "trade_cal", 0, TRUE) EXCEPT !.open = res,
                                                               !.pc = "import"]]
            /\ UNCHANGED lock
       ELSE /\ job' = [job EXCEPT ![p] =
                          Ends([Ran(@, "trade_cal", 0, res # "error")
                                    EXCEPT !.open = res],
                               IF res = "error"
                               THEN CmdError("trade_cal", 0) ELSE None)]
            /\ lock' = None
    /\ UNCHANGED <<pc, job_runs, mainVars, funVars, storeVars>>

\* 1) import_market_history_csv.py, and its row of job_runs
Import(p, ok) ==
    /\ job[p].pc = "import"
    /\ job_runs' = log_job_run(job_runs, "import_market_history",
                               IF ok THEN "success" ELSE "failed", p)
    /\ IF ok
       THEN /\ job' = [job EXCEPT ![p] =
                          [Ran(@, "import_market_history_csv", 0, TRUE)
                              EXCEPT !.pc = "generate"]]
            /\ UNCHANGED lock
       ELSE /\ job' = [job EXCEPT ![p] =
                          Ends(Ran(@, "import_market_history_csv", 0, FALSE),
                               CmdError("import_market_history_csv", 0))]
            /\ lock' = None
    /\ UNCHANGED <<pc, mainVars, funVars, storeVars>>

\* 2) one pass of the loop over attempts; after a success or after the last
\* attempt, the row of job_runs, and the exception if last_err is set
Generate(p, ok) ==
    /\ job[p].pc = "generate"
    /\ LET n == attempts[job[p].i]
           j == Ran(job[p], "generate_daily", n, ok)
       IN  IF ok
           THEN /\ job' = [job EXCEPT ![p] =
                              [j EXCEPT !.last_err = None, !.used_n = Val(n),
                                        !.pc = "export"]]
                /\ job_runs' = log_job_run(job_runs, "generate_daily", "success", p)
                /\ UNCHANGED lock
           ELSE IF job[p].i < Len(attempts)
           THEN /\ job' = [job EXCEPT ![p] =
                              [j EXCEPT !.last_err = CmdError("generate_daily", n),
                                        !.i = @ + 1]]
                /\ UNCHANGED <<job_runs, lock>>
           ELSE /\ job' = [job EXCEPT ![p] =
                              Ends([j EXCEPT !.last_err = CmdError("generate_daily", n)],
                                   CmdError("generate_daily", n))]
                /\ job_runs' = log_job_run(job_runs, "generate_daily", "failed", p)
                /\ lock' = None
    /\ UNCHANGED <<pc, mainVars, funVars, storeVars>>

\* 3) export_from_mysql.py, and its row of job_runs
Export(p, ok) ==
    /\ job[p].pc = "export"
    /\ job_runs' = log_job_run(job_runs, "export_pages",
                               IF ok THEN "success" ELSE "failed", p)
    /\ IF ok
       THEN /\ job' = [job EXCEPT ![p] =
                          [Ran(@, "export_from_mysql", 0, TRUE)
                              EXCEPT !.pc = "git_status"]]
            /\ UNCHANGED lock
       ELSE /\ job' = [job EXCEPT ![p] =
                          Ends(Ran(@, "export_from_mysql", 0, FALSE),
                               CmdError("export_from_mysql", 0))]
            /\ lock' = None
    /\ UNCHANGED <<pc, mainVars, funVars, storeVars>>

\* git status --porcelain: something changed, nothing changed, or it failed
GitStatus(p, res) ==
    /\ job[p].pc = "git_status"
    /\ IF res = "changed"
       THEN /\ job' = [job EXCEPT ![p] =
                          [Ran(@, "git_status", 0, TRUE) EXCEPT !.pc = "git_add"]]
            /\ UNCHANGED lock
       ELSE /\ job' = [job EXCEPT ![p] =
                          Ends(Ran(@, "git_status", 0, res # "error"),
                               IF res = "error"
                               THEN CmdError("git_status", 0) ELSE None)]
            /\ lock' = None
    /\ UNCHANGED <<pc, job_runs, mainVars, funVars, storeVars>>

\* the command after this one
NextGit(cmd) ==
    IF cmd = "git_add" THEN "git_commit"
    ELSE IF cmd = "git_commit" THEN "git_push"
    ELSE "exit"

\* git add, git commit, git push
Git(p, ok) ==
    /\ job[p].pc \in {"git_add", "git_commit", "git_push"}
    /\ IF ok /\ NextGit(job[p].pc) # "exit"
       THEN /\ job' = [job EXCEPT ![p] =
                          [Ran(@, job[p].pc, 0, TRUE) EXCEPT !.pc = NextGit(job[p].pc)]]
            /\ UNCHANGED lock
       ELSE /\ job' = [job EXCEPT ![p] =
                          Ends(Ran(@, job[p].pc, 0, ok),
                               IF ok THEN None ELSE CmdError(job[p].pc, 0))]
            /\ lock' = None
    /\ UNCHANGED <<pc, job_runs, mainVars, funVars, storeVars>>

NextEod ==
    \E p \in Procs :
        \/ Start(p)
        \/ TryLock(p)
        \/ \E res \in {"open", "closed", "error"} : TradeDay(p, res)
        \/ \E ok \in BOOLEAN : Import(p, ok)
        \/ \E ok \in BOOLEAN : Generate(p, ok)
        \/ \E ok \in BOOLEAN : Export(p, ok)
        \/ \E res \in {"changed", "clean", "error"} : GitStatus(p, res)
        \/ \E ok \in BOOLEAN : Git(p, ok)

SpecEod == InitEod /\ [][NextEod]_vars

(***************************************************************************)
(* C1                                                                      *)
(***************************************************************************)
\* the fixed order of the claim, as a rank
PriorityRank(l) ==
    CASE l = "lianban"             -> 1
      [] l = "diwei_shouban"       -> 2
      [] l = "shouban"             -> 3
      [] l = "xiangti_tupo_120"    -> 4
      [] l = "lishi_xingao"        -> 5
      [] l = "diwei_tupo"          -> 6
      [] l = "xiangti_dibu_qidong" -> 7
      [] l = "gaowei_ban"          -> 8

\* C1: once the primary pattern has been picked, it is "none" iff the label
\* set is empty, and otherwise the member of the label set that comes first
\* in the fixed priority order, whatever the order of appending; with both
\* "lianban" and "lishi_xingao" in the set it is "lianban".
C1_PickPrimaryByPriority ==
    pc = "picked" =>
        LET S == Range(labels) IN
        /\ (pattern = "none") <=> (S = {})
        /\ S # {} =>
              /\ pattern \in S
              /\ \A l \in S : PriorityRank(pattern) <= PriorityRank(l)
        /\ ({"lianban", "lishi_xingao"} \subseteq S) => pattern = "lianban"

\* "lishi_xingao" was appended first, "lianban" later, and "lianban" won
C1_Witness ==
    /\ pc = "picked"
    /\ Len(labels) >= 2
    /\ labels[1] = "lishi_xingao"
    /\ InList("lianban", labels)
    /\ pattern = "lianban"

(***************************************************************************)
(* C2                                                                      *)
(***************************************************************************)
\* the instrument is in top200 and its row has been labelled
Labelled == pc \in {"labelled", "done"} /\ Len(top_codes) > 0

\* the threshold of the claim, in tenths of a percent
C2_Threshold ==
    IF \/ ts_code.exch = "SZ" /\ ts_code.num = "300"
       \/ ts_code.exch = "SH" /\ ts_code.num = "688"
    THEN 198 ELSE 98

\* the gain of bar i over bar i-1 of the instrument's series meets the threshold
C2_Gain(i) ==
    LET arr == SeriesOf(ts_code)
    IN  /\ arr[i - 1].c > 0
        /\ 1000 * (arr[i].c - arr[i - 1].c) >= C2_Threshold * arr[i - 1].c

C2_Witness ==
    /\ Labelled
    /\ ts_code.num = "688"
    /\ LET arr == SeriesOf(ts_code)
           n == Len(arr)
       IN  /\ n >= 2
           /\ arr[n - 1].c > 0
           /\ 1000 * (arr[n].c - arr[n - 1].c) >= 98 * arr[n - 1].c
           /\ 1000 * (arr[n].c - arr[n - 1].c) < 198 * arr[n - 1].c
    /\ streak = Val(0)

Min(a, b) == IF a < b THEN a ELSE b

\* the table has been ranked
Ranked == pc \in {"ranked", "series", "labelled", "done"}

\* the i-th instrument of the market has a computable percentage change: it
\* is one of the universe, and close and adjustment factor are there on the
\* trade date and on the previous open day, whose adjusted close is not 0
ComputableOf(codes, i) ==
    LET h == provMarket[i].hist
        T == trade_date
    IN  /\ provMarket[i].ts_code \in codes
        /\ HasBar(h, T) /\ BarRow(h, T).c # None
        /\ HasAf(h, T) /\ AfRow(h, T) # None
        /\ T - 1 >= 1
        /\ HasBar(h, T - 1) /\ BarRow(h, T - 1).c # None
        /\ HasAf(h, T - 1) /\ AfRow(h, T - 1) # None
        /\ BarRow(h, T - 1).c.val * AfRow(h, T - 1).val # 0

ComputablesOf(codes) == { i \in 1..Len(provMarket) : ComputableOf(codes, i) }

Computables == ComputablesOf(Range(universe))

\* row a is ranked before row b: a higher pct_chg, or the same and earlier in
\* the input (the id of a ts_code is its place in the market)
Before(a, b) ==
    \/ a.pct_chg.val > b.pct_chg.val
    \/ a.pct_chg.val = b.pct_chg.val /\ a.ts_code.id < b.ts_code.id

\* top200 is the first 200 of the stable descending sort by pct_chg of the
\* instruments comp, of which ids are the ones in top200
FirstOfSorted(comp, ids) ==
    LET n == Len(top200)
    IN  /\ n <= 200
        /\ n = Min(200, Cardinality(comp))
        /\ ids \subseteq comp
        /\ \A i \in 1..n :
              /\ top200[i].pct_chg # None
              /\ top200[i].pct_chg =
                    RowPct(HistOf(top200[i].ts_code), trade_date, prev_date)
        /\ \A i \in 1..(n - 1) : Before(top200[i], top200[i + 1])
        /\ \A k \in comp \ ids :
              Before(top200[n],
                     [ts_code |-> provMarket[k].ts_code,
                      pct_chg |-> RowPct(provMarket[k].hist, trade_date,
                                         prev_date)])

\* C3: top200 is the first 200 of the stable descending sort by pct_chg of
\* exactly the instruments with a computable percentage change: every row
\* is of such an instrument and has its pct_chg, each row is before the next
\* (so pct_chg never increases and equal ones keep the input order), there
\* are min(200, number of such instruments) rows, and every such instrument
\* left out comes after the last row.
C3_Top200Ranked ==
    Ranked => FirstOfSorted(Computables,
                            { top200[i].ts_code.id : i \in 1..Len(top200) })

\* more than 200 instruments have a percentage change and one has none; the
\* rows have different and equal values, and an instrument left out has the
\* pct_chg of the last row
C3_Witness ==
    /\ Ranked
    /\ Len(top200) = 200
    /\ \E i \in 1..Len(provMarket) : i \notin Computables
    /\ \E i \in 1..199 : top200[i].pct_chg.val > top200[i + 1].pct_chg.val
    /\ \E i \in 1..199 : top200[i].pct_chg = top200[i + 1].pct_chg
    /\ \E k \in 1..Len(provMarket) :
          /\ k \in Computables
          /\ \A i \in 1..200 : top200[i].ts_code.id # k
          /\ RowPct(provMarket[k].hist, trade_date, prev_date) = top200[200].pct_chg

(***************************************************************************)
(* C4                                                                      *)
(***************************************************************************)
\* the places in top200 of the rows with primary pattern p
RowsOf(p) == { i \in 1..Len(top200) : top200[i].pattern = p }

\* C4 (the claim as stated): pattern_groups has a key for exactly the primary
\* patterns of top200 other than "none"; the group of p has min(8, count)
\* different rows of pattern p, listed with pct_chg never increasing, and no
\* row of pattern p left out of it has a higher pct_chg than a row in it.
C4_GroupsAreTopByPct ==
    pc = "done" =>
        /\ DOMAIN pattern_groups =
              { top200[i].pattern : i \in 1..Len(top200) } \ {"none"}
        /\ \A p \in DOMAIN pattern_groups :
              LET g == pattern_groups[p]
                  got == { i \in RowsOf(p) :
                            \E k \in 1..Len(g) : g[k].ts_code = top200[i].ts_code }
              IN  /\ Len(g) = Min(8, Cardinality(RowsOf(p)))
                  /\ Cardinality(got) = Len(g)
                  /\ \A k \in 1..Len(g) : \E i \in got :
                        /\ g[k].ts_code = top200[i].ts_code
                        /\ g[k].pct_chg = top200[i].pct_chg
                  /\ \A k \in 1..(Len(g) - 1) :
                        g[k].pct_chg.val >= g[k + 1].pct_chg.val
                  /\ \A i \in RowsOf(p) \ got : \A k \in 1..Len(g) :
                        g[k].pct_chg.val >= top200[i].pct_chg.val

(***************************************************************************)
(* C5                                                                      *)
(***************************************************************************)
\* C5 (the claim as stated): when the calendar has no open day the run ends
\* in an error and writes no file, and so it does when no instrument of
\* stock_basic survives the filters.
C5_MissingInputIsFatal ==
    /\ (pc # "start" /\ provCal = 0) => (pc = "raised" /\ written = {})
    /\ (pc \notin {"start", "calendar", "raised"} /\ Len(universe) = 0)
          => written = {}

(***************************************************************************)
(* C6                                                                      *)
(***************************************************************************)
\* C6 (the claim as stated): with a missing or null adj_factor, a missing
\* bar or a short, flat or empty history, and a calendar that has an open
\* day, the run raises nothing.
C6_MissingDataNeverHalts ==
    (provCal > 0 /\ provHist.kind # "nullclose") => (pc # "raised" /\ err = None)

C7_WitnessEmpty ==
    /\ Labelled
    /\ ts_code \notin DOMAIN series_map

(***************************************************************************)
(* C8                                                                      *)
(***************************************************************************)
\* C8: when the 120-bar window of the instrument's series (its last 120
\* bars, or all of them when there are fewer) has fewer than 60 bars,
\* wide_box_120 and box_breakout_120 are both false.
C8_ShortWindowNoBox ==
    LET arr == SeriesOf(ts_code)
        w == IF Len(arr) >= 120 THEN 120 ELSE Len(arr)
    IN  (pc \in {"series", "labelled", "done"} /\ w < 60)
            => (~ wide_box_120(ts_code) /\ ~ box_breakout_120(ts_code))

\* 59 bars, the last close more than 0.5% above every earlier high
C8_Witness ==
    LET arr == SeriesOf(ts_code)
    IN  /\ Labelled
        /\ Len(arr) = 59
        /\ \A i \in 1..58 : 1000 * arr[59].c > 1005 * arr[i].h
        /\ ~ InList("xiangti_tupo_120", labels)

(***************************************************************************)
(* C9                                                                      *)
(***************************************************************************)
\* the highest high equals the lowest low over the last 120 bars
FlatWindow ==
    LET arr120 == _slice_last(SeriesOf(ts_code), 120)
    IN  /\ Len(arr120) > 0
        /\ \A i \in 1..Len(arr120) :
              arr120[i].h = arr120[1].h /\ arr120[i].l = arr120[1].h

\* C9: over a flat positioning window calc_pos_120 is None, the row gets
\* neither of the low-position labels, and bottom_liftoff is false.
C9_FlatRangeNoPosition ==
    (pc \in {"series", "labelled", "done"} /\ FlatWindow) =>
        /\ calc_pos_120(ts_code) = None
        /\ ~ is_low(ts_code)
        /\ ~ bottom_liftoff(ts_code)
        /\ Labelled => /\ ~ InList("diwei_tupo", labels)
                       /\ ~ InList("diwei_shouban", labels)

\* a labelled row over a flat window of 120 bars
C9_Witness ==
    /\ Labelled
    /\ FlatWindow
    /\ Len(SeriesOf(ts_code)) >= 120
    /\ SeriesOf(ts_code)[1].c > 0

(***************************************************************************)
(* C10                                                                     *)
(***************************************************************************)
\* ret_nd(ts_code, n) is None iff the series has fewer than n+1 bars or the
\* close n bars ago is 0, and otherwise latestClose / closeNBarsAgo - 1
C10_RetOk(n) ==
    LET arr == SeriesOf(ts_code)
        r == ret_nd(ts_code, n)
    IN  IF Len(arr) < n + 1 \/ arr[Len(arr) - n].c = 0
        THEN r = None
        ELSE /\ r # None
             /\ ~ IsExc(r)
             /\ r.den # 0
             /\ (r.num + r.den) * arr[Len(arr) - n].c = arr[Len(arr)].c * r.den

\* the adjusted close of the previous open day is 0
PrevAdjCloseZero ==
    /\ Len(open_days) >= 2
    /\ InUniverse(ts_code)
    /\ HasBar(provHist, trade_date) /\ HasAf(provHist, trade_date)
    /\ HasBar(provHist, trade_date - 1) /\ HasAf(provHist, trade_date - 1)
    /\ BarRow(provHist, trade_date).c # None
    /\ AfRow(provHist, trade_date) # None
    /\ BarRow(provHist, trade_date - 1).c # None
    /\ AfRow(provHist, trade_date - 1) # None
    /\ BarRow(provHist, trade_date - 1).c.val
          * AfRow(provHist, trade_date - 1).val = 0

\* C10: no division by zero is ever raised; pct_chg is None when the
\* previous adjusted close is 0; ret_nd is None for a short series or a zero
\* close n bars ago and the return otherwise; and the streak counts no pair
\* at or before the most recent pair whose earlier close is 0.
C10_ZeroDenominatorsGuarded ==
    /\ err # ZeroDivisionError
    /\ (pc \notin {"start", "calendar", "universe", "raised"} /\ PrevAdjCloseZero)
          => pct_chg = None
    /\ pc \in {"series", "labelled", "done"} => C10_RetOk(20) /\ C10_RetOk(60)
    /\ Labelled =>
          LET arr == SeriesOf(ts_code)
          IN  \A i \in 2..Len(arr) : arr[i - 1].c = 0 => streak.val <= Len(arr) - i

\* a labelled row whose close 20 bars ago is 0 and whose latest close is not
C10_Witness ==
    LET arr == SeriesOf(ts_code)
    IN  /\ Labelled
        /\ Len(arr) >= 21
        /\ arr[Len(arr) - 20].c = 0
        /\ arr[Len(arr)].c > 0
        /\ ret_nd(ts_code, 20) = None

\* a row left out of the ranking because its previous adjusted close is 0
C10_WitnessPct == pc = "done" /\ PrevAdjCloseZero /\ pct_chg = None

(***************************************************************************)
(* C11                                                                     *)
(***************************************************************************)
\* the positions of nums that hold a value
C11_Present == {i \in 1..Len(nums) : nums[i] # None}

C11_CountLt(v) == Cardinality({i \in C11_Present : nums[i].val < v})

C11_CountLe(v) == Cardinality({i \in C11_Present : nums[i].val <= v})

\* the k-th smallest of the values of nums, counted with repetitions
C11_Kth(k) ==
    CHOOSE v \in {nums[i].val : i \in C11_Present} :
        C11_CountLt(v) < k /\ C11_CountLe(v) >= k

\* nums with the entries i and i+1 exchanged
C11_Swap(i) ==
    [j \in 1..Len(nums) |->
        IF j = i THEN nums[i + 1] ELSE IF j = i + 1 THEN nums[i] ELSE nums[j]]

\* C11: the value of _median(nums) is None when nums holds no value, the
\* middle one of its values in ascending order when their count is odd, and
\* the arithmetic mean of the two middle ones when it is even (20 for
\* [10,20,30], 15 for [10,20], None for []); it is the same for nums with two
\* neighbours exchanged, with one more None, and with every None removed.
C11_MedianOfValues ==
    pc \in {"median", "done"} =>
        LET n == Cardinality(C11_Present)
        IN  /\ n = 0 => med = None
            /\ n % 2 = 1 => med = [num |-> C11_Kth((n + 1) \div 2), den |-> 1]
            /\ (n > 0 /\ n % 2 = 0) =>
                   /\ med # None
                   /\ 2 * med.num = med.den * (C11_Kth(n \div 2) + C11_Kth(n \div 2 + 1))
            /\ nums = <<Val(10), Val(20), Val(30)>> => med = [num |-> 20, den |-> 1]
            /\ nums = <<Val(10), Val(20)>> => med # None /\ med.num = 15 * med.den
            /\ nums = <<>> => med = None
            /\ \A i \in 1..(Len(nums) - 1) : _median(C11_Swap(i)) = med
            /\ _median(Append(nums, None)) = med
            /\ _median(SelectSeq(nums, LAMBDA x : x # None)) = med

\* the median of an unsorted list with a None and an even count of values
C11_Witness ==
    /\ pc = "median"
    /\ nums = <<Val(30), None, Val(10)>>
    /\ med = [num |-> 40, den |-> 2]

(***************************************************************************)
(* C12                                                                     *)
(***************************************************************************)
\* C12: the bucket of a turnover t is ">10yi" iff t > 10, "3-10yi" iff
\* 3 <= t <= 10 and "<3yi" iff t < 3 (so 10.0 and 3.0 are both "3-10yi"),
\* and the bucket of no turnover is None.
C12_TurnBucket ==
    pc = "done" =>
        IF turnover_yi = None THEN turn_bucket = None
        ELSE LET t == turnover_yi.val
             IN  /\ turn_bucket = Val(">10yi") <=> t > 1000
                 /\ turn_bucket = Val("3-10yi") <=> (300 <= t /\ t <= 1000)
                 /\ turn_bucket = Val("<3yi") <=> t < 300

\* a turnover of exactly 10.0 has been put in the middle bucket
C12_Witness ==
    /\ pc = "done"
    /\ turnover_yi = Val(1000)
    /\ turn_bucket = Val("3-10yi")

(***************************************************************************)
(* C13                                                                     *)
(***************************************************************************)
\* the number of rows of top200 with primary pattern p
C13_Count(p) == Cardinality({i \in 1..Len(top200) : top200[i].pattern = p})

\* the part of concl with this phrase is there
C13_Says(text) == \E i \in 1..Len(concl) : concl[i].text = text

\* C13: once the rows are labelled, dominant_pattern is None iff top200 is
\* empty, it is "none" iff top200 is not empty and every row has primary
\* pattern "none", and otherwise it is a pattern other than "none" that no
\* other pattern than "none" outnumbers in top200; concl names the dominant
\* pattern iff it is there and not "none", and says that the patterns are
\* dispersed otherwise.
C13_DominantPattern ==
    pc \in {"labelled", "done"} =>
        /\ dominant_pattern = None <=> Len(top200) = 0
        /\ dominant_pattern = Val("none") <=>
               /\ Len(top200) > 0
               /\ \A i \in 1..Len(top200) : top200[i].pattern = "none"
        /\ dominant_pattern \notin {None, Val("none")} =>
               /\ C13_Count(dominant_pattern.val) > 0
               /\ \A p \in {top200[i].pattern : i \in 1..Len(top200)} \ {"none"} :
                      C13_Count(p) <= C13_Count(dominant_pattern.val)
        /\ IF dominant_pattern \notin {None, Val("none")}
           THEN /\ \E i \in 1..Len(concl) :
                       concl[i] = [text |-> "xingtai_yi_wei_zhu", arg |-> dominant_pattern]
                /\ ~ C13_Says("xingtai_fensan")
           ELSE /\ C13_Says("xingtai_fensan")
                /\ ~ C13_Says("xingtai_yi_wei_zhu")

\* the rows without a pattern outnumber those of the dominant pattern
C13_Witness ==
    /\ pc = "done"
    /\ dominant_pattern = Val("shouban")
    /\ C13_Count("none") > C13_Count("shouban")
    /\ C13_Says("xingtai_yi_wei_zhu")

\* no row has a pattern
C13_WitnessNone ==
    /\ pc = "done"
    /\ dominant_pattern = Val("none")
    /\ C13_Says("xingtai_fensan")

(***************************************************************************)
(* C14                                                                     *)
(***************************************************************************)
\* the places of top200 of the rows of board b
C14_Places(b) == {i \in 1..Len(top200) : top200[i].board = b}

\* the first place of top200 of a row of board b
C14_First(b) == CHOOSE i \in C14_Places(b) : \A j \in C14_Places(b) : i <= j

\* board b, of n rows, does not come before the dominant board, of m rows
C14_Before(m, n, b) ==
    /\ n <= m
    /\ (n = m /\ b # dominant_board.val) =>
           C14_First(dominant_board.val) < C14_First(b)

\* C14: once the rows are ranked, dominant_board is None when top200 is
\* empty, and otherwise a board that no board outnumbers in top200 and
\* whose first row comes before the first row of every other board with as
\* many rows.
C14_DominantBoard ==
    pc \in {"ranked", "series", "labelled", "done"} =>
        IF Len(top200) = 0 THEN dominant_board = None
        ELSE /\ dominant_board # None
             /\ C14_Places(dominant_board.val) # {}
             /\ \A b \in {top200[i].board : i \in 1..Len(top200)} :
                    C14_Before(Cardinality(C14_Places(dominant_board.val)),
                               Cardinality(C14_Places(b)), b)

\* two boards with one row each, the first of the ranking not being the
\* first of the market
C14_Witness ==
    /\ pc = "done"
    /\ Len(top200) = 2
    /\ top200[1].board # top200[2].board
    /\ top200[1].ts_code.id = 2
    /\ dominant_board = Val(top200[1].board)

(***************************************************************************)
(* C15                                                                     *)
(***************************************************************************)
\* the latest close of the instrument's series exceeds 1.005 times the close
\* of each other bar of its last 20 bars, of which there are at least 10
C15_Breakout ==
    LET arr == SeriesOf(ts_code)
        n == Len(arr)
        from == IF n >= 20 THEN n - 19 ELSE 1
    IN  /\ n >= 10
        /\ \A i \in from..(n - 1) : 1000 * arr[n].c > 1005 * arr[i].c

\* the position in the 120-bar range is there and at most 0.30
C15_Low ==
    LET pos == calc_pos_120(ts_code)
    IN  pos # None /\ 100 * pos.num <= 30 * pos.den

\* C15: the labels of a labelled row contain "diwei_tupo" iff the position
\* in the 120-bar range is there and at most 0.30, the 20-bar window has at
\* least 10 bars and the latest close exceeds 1.005 times the highest close
\* of the other bars of the window; they contain "diwei_shouban" iff all
\* this holds and the streak is 1.
C15_LowBreakoutLabels ==
    Labelled =>
        /\ InList("diwei_tupo", labels) <=> (C15_Low /\ C15_Breakout)
        /\ InList("diwei_shouban", labels) <=>
               (C15_Low /\ C15_Breakout /\ streak = Val(1))

\* a low breakout on a first limit-up day
C15_Witness ==
    /\ pc = "done"
    /\ InList("diwei_tupo", labels)
    /\ InList("diwei_shouban", labels)

\* a low breakout without a limit-up day
C15_WitnessStreak0 ==
    /\ pc = "done"
    /\ InList("diwei_tupo", labels)
    /\ streak = Val(0)

\* a breakout above the low zone: no label
C15_WitnessHigh ==
    /\ pc = "done"
    /\ C15_Breakout
    /\ ~ C15_Low
    /\ ~ InList("diwei_tupo", labels)

(***************************************************************************)
(* C16                                                                     *)
(***************************************************************************)
\* the sum of the closes i..j of the instrument's series
C16_Sum(i, j) ==
    LET arr == SeriesOf(ts_code)
        f[k \in (i - 1)..j] == IF k = i - 1 THEN 0 ELSE f[k - 1] + arr[k].c
    IN  f[j]

\* the position in the 120-bar range is there and at most 0.25
C16_Low ==
    LET pos == calc_pos_120(ts_code)
    IN  pos # None /\ 100 * pos.num <= 25 * pos.den

\* the series has 30 bars, its latest close is above the mean of the last 20
\* closes, and that mean is above the mean of the 20 closes ending 10 bars
\* earlier
C16_Rising ==
    LET n == Len(SeriesOf(ts_code))
    IN  /\ n >= 30
        /\ 20 * SeriesOf(ts_code)[n].c > C16_Sum(n - 19, n)
        /\ C16_Sum(n - 19, n) > C16_Sum(n - 29, n - 10)

\* C16: the labels of a labelled row contain "xiangti_dibu_qidong", the
\* label of bottom_liftoff, iff wide_box_120 holds, the position in the
\* 120-bar range is there and at most 0.25, the series has at least 30 bars,
\* the latest close is above the mean of the last 20 closes and that mean is
\* above the mean of the 20 closes ending 10 bars earlier; with fewer than
\* 30 bars the label is not there.
C16_BottomLiftoff ==
    Labelled =>
        /\ InList("xiangti_dibu_qidong", labels) <=>
               (wide_box_120(ts_code) /\ C16_Low /\ C16_Rising)
        /\ Len(SeriesOf(ts_code)) < 30 => ~ InList("xiangti_dibu_qidong", labels)

\* a lift-off from the bottom of the box
C16_Witness ==
    /\ pc = "done"
    /\ InList("xiangti_dibu_qidong", labels)

\* everything but the slope of the mean holds: no label
C16_WitnessFlatMean ==
    /\ pc = "done"
    /\ wide_box_120(ts_code)
    /\ C16_Low
    /\ Len(SeriesOf(ts_code)) >= 30
    /\ 20 * SeriesOf(ts_code)[Len(SeriesOf(ts_code))].c
           > C16_Sum(Len(SeriesOf(ts_code)) - 19, Len(SeriesOf(ts_code)))
    /\ ~ InList("xiangti_dibu_qidong", labels)

(***************************************************************************)
(* C20                                                                     *)
(***************************************************************************)
\* the primary pattern, the streak and the labels of each row of top200
C20_Rows ==
    {[p |-> top200[i].pattern, st |-> top200[i].streak,
      ls |-> top200[i].pattern_labels] : i \in 1..Len(top200)}

\* C20: once the rows are labelled, the primary pattern of every row of
\* top200 is "lianban" iff its streak is at least 2, "shouban" or
\* "diwei_shouban" iff its streak is 1, and another pattern or "none" iff its
\* streak is 0; "gaowei_ban" is no row's primary pattern, is not the
\* dominant pattern and is not a key of pattern_groups; and no row has both
\* "lianban" and "shouban" among its labels.
C20_PatternTiedToStreak ==
    pc \in {"labelled", "done"} =>
        /\ \A r \in C20_Rows :
              /\ r.p = "lianban" <=> r.st.val >= 2
              /\ r.p \in {"shouban", "diwei_shouban"} <=> r.st.val = 1
              /\ r.p \notin {"lianban", "shouban", "diwei_shouban"} <=> r.st.val = 0
              /\ r.p # "gaowei_ban"
              /\ ~ (InList("lianban", r.ls) /\ InList("shouban", r.ls))
        /\ dominant_pattern # Val("gaowei_ban")
        /\ pc = "done" => "gaowei_ban" \notin DOMAIN pattern_groups

\* a row with the sentiment label, whose primary pattern is the first
\* limit-up, and a row with a streak of 2
C20_Witness ==
    /\ pc = "done"
    /\ \E r \in C20_Rows :
          InList("gaowei_ban", r.ls) /\ r.p = "shouban" /\ r.st = Val(1)
    /\ \E r \in C20_Rows : r.p = "lianban" /\ r.st = Val(2)

(***************************************************************************)
(* C17                                                                     *)
(***************************************************************************)
\* the name of the snapshot file of a trade date, YYYY-MM-DD
C17_Name(d) ==
    <<d[1], d[2], d[3], d[4], 45, d[5], d[6], 45, d[7], d[8]>>

\* the rows of the table whose snapshot is of trade date d
C17_RowsOf(d) ==
    {i \in 1..Len(daily_snapshot) :
        daily_snapshot[i].json_data.json.date = C17_Name(d)}

\* C17: after any sequence of runs and upserts, the files hold one snapshot
\* for each trade date a run was made for and none for any other, each the
\* snapshot of the latest run for its date; the table holds one row for each
\* trade date upserted and none for any other, each with the snapshot of the
\* latest upsert for its date, and no two rows have the same trade_date.
\* (What is held for a date changes only by a write for that date.)
C17_LastWriteWins ==
    pc = "store" =>
        /\ \A d \in Dates :
              IF last_write.run[d] = None
              THEN C17_Name(d) \notin DOMAIN files.snap
              ELSE /\ C17_Name(d) \in DOMAIN files.snap
                   /\ files.snap[C17_Name(d)] = last_write.run[d]
        /\ Cardinality(DOMAIN files.snap) =
              Cardinality({d \in Dates : last_write.run[d] # None})
        /\ \A d \in Dates :
              IF last_write.upsert[d] = None
              THEN C17_RowsOf(d) = {}
              ELSE /\ Cardinality(C17_RowsOf(d)) = 1
                   /\ \A i \in C17_RowsOf(d) :
                         daily_snapshot[i].json_data.json = last_write.upsert[d]
        /\ \A i, k \in 1..Len(daily_snapshot) :
              daily_snapshot[i].trade_date = daily_snapshot[k].trade_date => i = k

\* a date written twice, with different snapshots, between them a write for
\* another date that differs in the year only
C17_Witness ==
    /\ pc = "store"
    /\ last_write.n = 3
    /\ DOMAIN files.snap = {C17_Name(Str(<<2, 0, 2, 4, 0, 1, 0, 2>>)),
                           C17_Name(Str(<<2, 0, 2, 5, 0, 1, 0, 2>>))}
    /\ files.snap[C17_Name(Str(<<2, 0, 2, 4, 0, 1, 0, 2>>))].body = "a"
    /\ files.snap[C17_Name(Str(<<2, 0, 2, 5, 0, 1, 0, 2>>))].body = "b"
    /\ files.latest.body = "a"
    /\ files.latest.date = C17_Name(Str(<<2, 0, 2, 4, 0, 1, 0, 2>>))

\* a date upserted twice
C17_WitnessUpsert ==
    /\ pc = "store"
    /\ last_write.n = 3
    /\ Len(daily_snapshot) = 2
    /\ daily_snapshot[1].json_data.json.body = "b"

(***************************************************************************)
(* C18                                                                     *)
(***************************************************************************)
\* invocation p is inside the job steps: the trade-day check, the import,
\* the generation, the export, or the git commands
C18_InSteps(p) ==
    job[p].pc \in {"trade_cal", "import", "generate", "export", "git_status",
                   "git_add", "git_commit", "git_push"}

\* C18: at most one invocation of run_eod is inside the job steps at a time,
\* and an invocation that found the lock held has ended with the error of the
\* non-blocking flock without having run any job step.
C18_LockExcludes ==
    pc = "eod" =>
        /\ \A p, q \in Procs : (C18_InSteps(p) /\ C18_InSteps(q)) => p = q
        /\ \A p \in Procs :
              job[p].raised = BlockingIOError =>
                  /\ job[p].pc = "exit"
                  /\ job[p].ran = <<>>
                  /\ job[p].open = "unknown"
        /\ \A p \in Procs : C18_InSteps(p) => lock = Val(p)

\* one invocation has been refused the lock while another is generating
C18_Witness ==
    /\ pc = "eod"
    /\ \E p, q \in Procs :
          /\ job[p].raised = BlockingIOError
          /\ job[p].ran = <<>>
          /\ job[q].pc = "generate"
          /\ Len(job[q].ran) = 3

(***************************************************************************)
(* C19                                                                     *)
(***************************************************************************)
\* the places of ran of invocation p where generate_daily.py was run
C19_Gens(p) == {k \in 1..Len(job[p].ran) : job[p].ran[k].cmd = "generate_daily"}

\* an attempt of invocation p has succeeded before place k of ran
C19_SucceededBefore(p, k) ==
    \E i \in C19_Gens(p) : i < k /\ job[p].ran[i].ok

\* all three attempts of invocation p have failed
C19_AllFailed(p) ==
    /\ Cardinality(C19_Gens(p)) = 3
    /\ \A k \in C19_Gens(p) : ~ job[p].ran[k].ok

C19_After ==
    {"export_from_mysql", "git_status", "git_add", "git_commit", "git_push"}

C19_WitnessFailed ==
    /\ pc = "eod"
    /\ \E p \in Procs : C19_AllFailed(p) /\ job[p].raised # None

\* a non-trading day
C19_WitnessClosed ==
    /\ pc = "eod"
    /\ \E p \in Procs : job[p].open = "closed" /\ job[p].pc = "exit"

(***************************************************************************)
(* C21                                                                     *)
(***************************************************************************)
\* the date of a YYYY-MM-DD string as the number YYYYMMDD
C21_DateNum(k) ==
    (k[1] - 48) * 10000000 + (k[2] - 48) * 1000000 + (k[3] - 48) * 100000
    + (k[4] - 48) * 10000 + (k[6] - 48) * 1000 + (k[7] - 48) * 100
    + (k[9] - 48) * 10 + (k[10] - 48)

\* C21: after any sequence of runs starting without index.json, the dates of
\* index.json contain the date of every snapshot file written, no date
\* twice, in descending order of date; and latest.json is the snapshot of
\* the latest run, whatever its date.
C21_IndexAndLatest ==
    pc = "store" =>
        /\ \A n \in DOMAIN files.snap :
              \E i \in 1..Len(files.index) : files.index[i] = n
        /\ \A i, k \in 1..Len(files.index) :
              /\ files.index[i] = files.index[k] => i = k
              /\ i < k => C21_DateNum(files.index[i]) > C21_DateNum(files.index[k])
        /\ files.latest = last_write.latest

\* three dates written, the latest run being for the oldest of them
C21_Witness ==
    /\ pc = "store"
    /\ Len(files.index) = 3
    /\ files.latest # None
    /\ files.latest.date = files.index[3]

\* a date written again: no second entry for it
C21_WitnessAgain ==
    /\ pc = "store"
    /\ last_write.n = 3
    /\ daily_snapshot = <<>>
    /\ Len(files.index) = 1

====
